---- MODULE Spec2Model ----
(***************************************************************************)
(* A model of the token_launcher program (programs/token-launcher/src/     *)
(* lib.rs): the bonding-curve launcher state, its SOL vault, and the       *)
(* buy_tokens / sell_tokens / withdraw_sol instructions.                   *)
(*                                                                         *)
(* Every amount of the program is a u64.  TLC's integers are 32 bits wide, *)
(* so a u64 is held as the sequence of its base-10^4 digits, least         *)
(* significant digit first and without leading zero digits (0 is <<>>).    *)
(* The arithmetic below is exact on such sequences; the u64 operations of  *)
(* the program (checked_add, checked_mul, `*`, pow, ...) are defined on    *)
(* top of it with their real width, 2^64.                                  *)
(***************************************************************************)
EXTENDS Integers, Sequences, FiniteSets, TLC

-----------------------------------------------------------------------------
(* Exact natural-number arithmetic on digit sequences.                      *)

Limb == 10000

RECURSIVE N(_)
\* the digit sequence of the (small) natural number n
N(n) == IF n = 0 THEN <<>> ELSE <<n % Limb>> \o N(n \div Limb)

Zero == <<>>
One == <<1>>

RECURSIVE Trim(_)
\* drop leading (most significant) zero digits
Trim(s) ==
    IF s = <<>> THEN <<>>
    ELSE IF s[Len(s)] = 0 THEN Trim(SubSeq(s, 1, Len(s) - 1))
    ELSE s

Digit(s, i) == IF i <= Len(s) THEN s[i] ELSE 0

RECURSIVE LtFrom(_, _, _)
\* a < b, given that a and b have the same length and agree above digit i
LtFrom(a, b, i) ==
    IF i = 0 THEN FALSE
    ELSE IF a[i] # b[i] THEN a[i] < b[i]
    ELSE LtFrom(a, b, i - 1)

Lt(a, b) ==
    IF Len(a) # Len(b) THEN Len(a) < Len(b) ELSE LtFrom(a, b, Len(a))

Le(a, b) == ~Lt(b, a)

RECURSIVE AddFrom(_, _, _, _)
AddFrom(a, b, i, carry) ==
    IF i > Len(a) /\ i > Len(b)
    THEN (IF carry = 0 THEN <<>> ELSE <<carry>>)
    ELSE LET t == Digit(a, i) + Digit(b, i) + carry
         IN  <<t % Limb>> \o AddFrom(a, b, i + 1, t \div Limb)

Add(a, b) == AddFrom(a, b, 1, 0)

RECURSIVE SubFrom(_, _, _, _)
SubFrom(a, b, i, borrow) ==
    IF i > Len(a) THEN <<>>
    ELSE LET t == a[i] - Digit(b, i) - borrow
         IN  IF t < 0
             THEN <<t + Limb>> \o SubFrom(a, b, i + 1, 1)
             ELSE <<t>> \o SubFrom(a, b, i + 1, 0)

\* a - b, for b <= a
Sub(a, b) == Trim(SubFrom(a, b, 1, 0))

RECURSIVE MulDigitFrom(_, _, _, _)
MulDigitFrom(a, d, i, carry) ==
    IF i > Len(a)
    THEN (IF carry = 0 THEN <<>> ELSE <<carry>>)
    ELSE LET t == a[i] * d + carry
         IN  <<t % Limb>> \o MulDigitFrom(a, d, i + 1, t \div Limb)

RECURSIVE MulFrom(_, _, _)
\* a * (the number made of the digits i.. of b)
MulFrom(a, b, i) ==
    IF i > Len(b) THEN <<>>
    ELSE Add(MulDigitFrom(a, b[i], 1, 0), <<0>> \o MulFrom(a, b, i + 1))

Mul(a, b) == Trim(MulFrom(a, b, 1))

MulDigit(a, d) == Trim(MulDigitFrom(a, d, 1, 0))

RECURSIVE ShortDivFrom(_, _, _)
\* division by the single digit d # 0 of the number made of the digits i..
\* of a: its quotient digits and its remainder
ShortDivFrom(a, d, i) ==
    IF i > Len(a) THEN <<Zero, 0>>
    ELSE LET upper == ShortDivFrom(a, d, i + 1)
             t == upper[2] * Limb + a[i]
         IN  <<(<<t \div d>> \o upper[1]), t % d>>

RECURSIVE QuotientDigit(_, _, _, _)
\* the largest q in lo..hi with b * q <= r, given b * lo <= r
QuotientDigit(r, b, lo, hi) ==
    IF lo >= hi THEN lo
    ELSE LET mid == (lo + hi + 1) \div 2
         IN  IF Le(MulDigit(b, mid), r)
             THEN QuotientDigit(r, b, mid, hi)
             ELSE QuotientDigit(r, b, lo, mid - 1)

Min(m, n) == IF m < n THEN m ELSE n

\* floor(r / b) for 0 < b and r < b * Limb: the quotient lies between the
\* quotients of the leading digits of r by the leading digit of b rounded
\* up and down
QuotientOf(r, b) ==
    LET n == Len(b)
        lead == Digit(r, n + 1) * Limb + Digit(r, n)
    IN  QuotientDigit(r, b, lead \div (b[n] + 1),
                      Min(Limb - 1, lead \div b[n]))

RECURSIVE LongDivFrom(_, _, _)
\* long division by b # 0 of the number made of the digits i.. of a: its
\* quotient digits and its remainder
LongDivFrom(a, b, i) ==
    IF i > Len(a) THEN <<Zero, Zero>>
    ELSE LET upper == LongDivFrom(a, b, i + 1)
             r == Trim(<<a[i]>> \o upper[2])
             q == QuotientOf(r, b)
         IN  <<(<<q>> \o upper[1]), Sub(r, MulDigit(b, q))>>

\* <<floor(a / b), a mod b>>, for b # 0
DivMod(a, b) ==
    IF Len(b) = 1
    THEN LET short == ShortDivFrom(a, b[1], 1)
         IN  <<Trim(short[1]), N(short[2])>>
    ELSE LET long == LongDivFrom(a, b, 1)
         IN  <<Trim(long[1]), long[2]>>

Div(a, b) == DivMod(a, b)[1]
Mod(a, b) == DivMod(a, b)[2]

RECURSIVE Pow(_, _)
Pow(a, n) ==
    IF n = 0 THEN One
    ELSE LET rest == Pow(a, n - 1)
         IN  IF rest = Zero THEN Zero ELSE Mul(a, rest)

-----------------------------------------------------------------------------
(* u64 arithmetic as the program uses it.                                   *)

\* u64::MAX + 1
TwoTo64 == <<1616, 955, 737, 6744, 1844>>   \* 18_446_744_073_709_551_616

IsU64(v) == Lt(v, TwoTo64)

\* Option::None, the result of a checked_* operation that fails; no digit
\* sequence has a negative digit
None == <<-1>>

\* the outcome of an unchecked operator (`*`, `+`, `-=`, pow) that overflows in
\* a build with overflow checks: the program panics and the instruction aborts
Abort == <<-2>>

IsValue(v) == v # None /\ v # Abort

checked_add(a, b) == LET sum == Add(a, b) IN IF IsU64(sum) THEN sum ELSE None

checked_sub(a, b) == IF Le(b, a) THEN Sub(a, b) ELSE None

checked_mul(a, b) ==
    LET product == Mul(a, b) IN IF IsU64(product) THEN product ELSE None

checked_div(a, b) == IF b = Zero THEN None ELSE Div(a, b)

VARIABLES
    overflow_checks,  \* the build: TRUE when arithmetic overflow panics,
                      \* FALSE when it wraps (Rust's release default)
    scenario,         \* which deployment of Scenarios this is
    token_decimals,   \* launcher_state.token_decimals
    max_supply,       \* launcher_state.max_supply
    current_price,    \* launcher_state.current_price
    total_minted,     \* launcher_state.total_minted
    sol_collected,    \* launcher_state.sol_collected
    sol_vault,        \* the lamports of the sol_vault account
    lamports,         \* the lamports of each signer's account
    token_balance,    \* the amount held by each signer's token account
    traded,           \* has a buy or a sell succeeded since initialization
    last,             \* the last instruction processed and its result
    steps             \* the number of instructions processed

vars == <<overflow_checks, scenario, token_decimals, max_supply, current_price,
          total_minted, sol_collected, sol_vault, lamports, token_balance,
          traded, last, steps>>

\* the wrapped result (mod 2^64) of an unchecked operation whose exact
\* result is v, or the panic of a build that checks overflow
Unchecked(v) ==
    IF IsU64(v) THEN v
    ELSE IF overflow_checks THEN Abort
    ELSE Mod(v, TwoTo64)

\* a - b computed with `-` / `-=`
UncheckedSub(a, b) ==
    IF Le(b, a) THEN Sub(a, b)
    ELSE IF overflow_checks THEN Abort
    ELSE Sub(Add(a, TwoTo64), b)

RECURSIVE pow(_, _)
\* base.pow(exp) of u64: repeated unchecked multiplication
pow(base, exp) ==
    IF exp = 0 THEN One
    ELSE LET rest == pow(base, exp - 1)
         IN  IF rest = Abort THEN Abort ELSE Unchecked(Mul(base, rest))

-----------------------------------------------------------------------------
(* The deployments and instruction arguments explored.                      *)

\* m * 10^k
E(m, k) == Mul(N(m), Pow(N(10), k))

\* the signers: the launcher's authority and one other account
Authority == "authority"
Signers == {"authority", "user"}

\* the lamports each signer holds when the launcher is initialized
SignerLamports == E(1, 15)

\* initialize_token_launcher creates sol_vault with `init, space = 0`: it
\* starts with the rent-exempt minimum of an account without data
VaultInitialLamports == N(890880)

\* Each deployment is the arguments initialize_token_launcher was called with
\* (it accepts every u8 / u64 value) and the amounts later instructions are
\* called with.
Scenarios ==
    << \* a whole-token asset of 1_000_000 units starting on the curve
       [ decimals |-> 0, max_supply |-> N(1000000), initial_price |-> N(1000000),
         buy |-> {N(999999), E(5, 11), E(75, 10)},
         sell |-> {N(500000)},
         withdraw |-> {E(5, 11), E(3, 15)} ],
       \* 10^9 tokens of 9 decimals: amounts near the top of the u64 range
       [ decimals |-> 9, max_supply |-> E(1, 18), initial_price |-> N(1000000),
         buy |-> {Zero, E(1, 14), E(2, 14), E(2024, 13)},
         sell |-> {E(1, 17)},
         withdraw |-> {E(1, 14)} ],
       \* an initial price off the curve, amounts that are no whole token
       [ decimals |-> 2, max_supply |-> N(1000), initial_price |-> N(500000),
         buy |-> {N(499999), N(500000), N(1250000), N(10000000)},
         sell |-> {Zero, N(100), N(150), N(200)},
         withdraw |-> {N(890880)} ],
       \* no supply at all
       [ decimals |-> 0, max_supply |-> Zero, initial_price |-> N(1000000),
         buy |-> {Zero, N(1000000)},
         sell |-> {Zero},
         withdraw |-> {One} ],
       \* a price of 0 and more decimals than a u64 has digits
       [ decimals |-> 20, max_supply |-> E(1, 18), initial_price |-> Zero,
         buy |-> {Zero, N(1000000)},
         sell |-> {Zero, One},
         withdraw |-> {One} ],
       \* 10^decimals above the u64 range with a supply that admits the
       \* wrapped value of one whole token
       [ decimals |-> 20, max_supply |-> E(1, 19), initial_price |-> N(1000000),
         buy |-> {N(1000000)},
         sell |-> {Mod(E(1, 20), TwoTo64)},
         withdraw |-> {N(900000)} ] >>

\* the number of instructions processed in one behaviour
MaxSteps == 3

-----------------------------------------------------------------------------
(* The program.                                                             *)

\* LauncherState::update_price on total_minted = supply: the new
\* current_price, or Abort when the instruction panics
update_price(supply) ==
    LET product == Unchecked(Mul(supply, N(100)))
    IN  IF product = Abort \/ max_supply = Zero THEN Abort
        ELSE LET supply_ratio == Div(product, max_supply)
                 price_multiplier == Unchecked(Add(N(100), supply_ratio))
             IN  IF price_multiplier = Abort THEN Abort
                 ELSE LET scaled == Unchecked(Mul(N(1000000), price_multiplier))
                      IN  IF scaled = Abort THEN Abort
                          ELSE Div(scaled, N(100))

\* buy_tokens: token_amount for sol_amount = sol at the current price; None when a
\* checked operation fails, Abort when pow panics
BuyTokenAmount(sol) ==
    LET whole == checked_div(sol, current_price)
    IN  IF whole = None THEN None
        ELSE LET unit == pow(N(10), token_decimals)
             IN  IF unit = Abort THEN Abort
                 ELSE checked_mul(whole, unit)

\* a max-supply check that forgets the amount being minted
MaxSupplyCheckBeforeMint(amount) ==
    IF checked_add(total_minted, amount) = None THEN "MathOverflow"
    ELSE IF Le(total_minted, max_supply) THEN "Ok"
    ELSE "MaxSupplyExceeded"

\* a max-supply check reduced to the overflow check of the addition
MaxSupplyCheckOverflowOnly(amount) ==
    IF checked_add(total_minted, amount) = None THEN "MathOverflow" ELSE "Ok"

\* buy_tokens: the max-supply check, "Ok" or the error it returns
MaxSupplyCheck(amount) ==
    LET total == checked_add(total_minted, amount)
    IN  IF total = None THEN "MathOverflow"
        ELSE IF Le(total, max_supply) THEN "Ok"
        ELSE "MaxSupplyExceeded"

\* sell_tokens: sol_amount for token_amount = tokens at the current price with the
\* 10% slippage; None when a checked operation fails, Abort when pow panics
SellSolAmount(tokens) ==
    LET unit == pow(N(10), token_decimals)
    IN  IF unit = Abort THEN Abort
        ELSE LET whole == checked_div(tokens, unit)
             IN  IF whole = None THEN None
                 ELSE LET gross == checked_mul(whole, current_price)
                      IN  IF gross = None THEN None
                          ELSE LET net == checked_mul(gross, N(90))
                               IN  IF net = None THEN None
                                   ELSE checked_div(net, N(100))

\* a sell that does not look at the vault's balance
VaultCheckSkipped(amount) == TRUE

\* sell_tokens: the vault holds enough lamports to pay amount
VaultCovers(amount) == Le(amount, sol_vault)

\* a withdrawal that only requires a signature
IsAnySigner(who) == who \in Signers

\* withdraw_sol: the signer is the launcher's authority
IsAuthority(who) == who = Authority

\* An instruction that returns an error or panics changes no account: the
\* runtime commits the accounts of an instruction only when it returns Ok.
Failed(op, who, amount, err) ==
    /\ last' = [op |-> op, who |-> who, amount |-> amount, err |-> err,
                out |-> Zero]
    /\ UNCHANGED <<current_price, total_minted, sol_collected, sol_vault,
                   lamports, token_balance, traded>>

Finished(op, who, amount, out) ==
    last' = [op |-> op, who |-> who, amount |-> amount, err |-> "Ok",
             out |-> out]

\* a buy that takes the lamports and leaves sol_collected as it was
buy_tokens_keeps_sol_collected(buyer, sol_amount) ==
    LET token_amount == BuyTokenAmount(sol_amount)
        check == MaxSupplyCheck(token_amount)
        minted == checked_add(total_minted, token_amount)
        price == update_price(minted)
    IN  IF token_amount = None
        THEN Failed("buy", buyer, sol_amount, "MathOverflow")
        ELSE IF token_amount = Abort
        THEN Failed("buy", buyer, sol_amount, "Panic")
        ELSE IF check # "Ok"
        THEN Failed("buy", buyer, sol_amount, check)
        ELSE IF Lt(lamports[buyer], sol_amount)
        THEN Failed("buy", buyer, sol_amount, "InsufficientFunds")
        ELSE IF minted = None
        THEN Failed("buy", buyer, sol_amount, "MathOverflow")
        ELSE IF price = Abort
        THEN Failed("buy", buyer, sol_amount, "Panic")
        ELSE /\ lamports' = [lamports EXCEPT ![buyer] = Sub(@, sol_amount)]
             /\ sol_vault' = Add(sol_vault, sol_amount)
             /\ token_balance' = [token_balance EXCEPT
                                    ![buyer] = Add(@, token_amount)]
             /\ total_minted' = minted
             /\ sol_collected' = sol_collected
             /\ current_price' = price
             /\ traded' = TRUE
             /\ Finished("buy", buyer, sol_amount, token_amount)

\* buy_tokens(ctx, sol_amount) signed by buyer
buy_tokens(buyer, sol_amount) ==
    LET token_amount == BuyTokenAmount(sol_amount)
        check == MaxSupplyCheck(token_amount)
        minted == checked_add(total_minted, token_amount)
        collected == checked_add(sol_collected, sol_amount)
        price == update_price(minted)
    IN  IF token_amount = None
        THEN Failed("buy", buyer, sol_amount, "MathOverflow")
        ELSE IF token_amount = Abort
        THEN Failed("buy", buyer, sol_amount, "Panic")
        ELSE IF check # "Ok"
        THEN Failed("buy", buyer, sol_amount, check)
        \* system_program::transfer fails when the buyer lacks the lamports
        ELSE IF Lt(lamports[buyer], sol_amount)
        THEN Failed("buy", buyer, sol_amount, "InsufficientFunds")
        ELSE IF minted = None \/ collected = None
        THEN Failed("buy", buyer, sol_amount, "MathOverflow")
        ELSE IF price = Abort
        THEN Failed("buy", buyer, sol_amount, "Panic")
        ELSE /\ lamports' = [lamports EXCEPT ![buyer] = Sub(@, sol_amount)]
             /\ sol_vault' = Add(sol_vault, sol_amount)
             /\ token_balance' = [token_balance EXCEPT
                                    ![buyer] = Add(@, token_amount)]
             /\ total_minted' = minted
             /\ sol_collected' = collected
             /\ current_price' = price
             /\ traded' = TRUE
             /\ Finished("buy", buyer, sol_amount, token_amount)

\* a sell that burns the tokens and leaves total_minted as it was
sell_tokens_keeps_total_minted(seller, token_amount) ==
    LET sol_amount == SellSolAmount(token_amount)
        vault_after == UncheckedSub(sol_vault, sol_amount)
        seller_after == Unchecked(Add(lamports[seller], sol_amount))
        collected == checked_sub(sol_collected, sol_amount)
        price == update_price(total_minted)
    IN  IF sol_amount = None
        THEN Failed("sell", seller, token_amount, "MathOverflow")
        ELSE IF sol_amount = Abort
        THEN Failed("sell", seller, token_amount, "Panic")
        ELSE IF ~VaultCovers(sol_amount)
        THEN Failed("sell", seller, token_amount, "InsufficientSolBalance")
        ELSE IF Lt(token_balance[seller], token_amount)
        THEN Failed("sell", seller, token_amount, "InsufficientTokens")
        ELSE IF vault_after = Abort \/ seller_after = Abort
        THEN Failed("sell", seller, token_amount, "Panic")
        ELSE IF collected = None
        THEN Failed("sell", seller, token_amount, "MathOverflow")
        ELSE IF price = Abort
        THEN Failed("sell", seller, token_amount, "Panic")
        ELSE /\ token_balance' = [token_balance EXCEPT
                                    ![seller] = Sub(@, token_amount)]
             /\ sol_vault' = vault_after
             /\ lamports' = [lamports EXCEPT ![seller] = seller_after]
             /\ total_minted' = total_minted
             /\ sol_collected' = collected
             /\ current_price' = price
             /\ traded' = TRUE
             /\ Finished("sell", seller, token_amount, sol_amount)

\* sell_tokens(ctx, token_amount) signed by seller
sell_tokens(seller, token_amount) ==
    LET sol_amount == SellSolAmount(token_amount)
        vault_after == UncheckedSub(sol_vault, sol_amount)
        seller_after == Unchecked(Add(lamports[seller], sol_amount))
        minted == checked_sub(total_minted, token_amount)
        collected == checked_sub(sol_collected, sol_amount)
        price == update_price(minted)
    IN  IF sol_amount = None
        THEN Failed("sell", seller, token_amount, "MathOverflow")
        ELSE IF sol_amount = Abort
        THEN Failed("sell", seller, token_amount, "Panic")
        ELSE IF ~VaultCovers(sol_amount)
        THEN Failed("sell", seller, token_amount, "InsufficientSolBalance")
        \* token::burn fails when the seller holds fewer tokens
        ELSE IF Lt(token_balance[seller], token_amount)
        THEN Failed("sell", seller, token_amount, "InsufficientTokens")
        ELSE IF vault_after = Abort \/ seller_after = Abort
        THEN Failed("sell", seller, token_amount, "Panic")
        ELSE IF minted = None \/ collected = None
        THEN Failed("sell", seller, token_amount, "MathOverflow")
        ELSE IF price = Abort
        THEN Failed("sell", seller, token_amount, "Panic")
        ELSE /\ token_balance' = [token_balance EXCEPT
                                    ![seller] = Sub(@, token_amount)]
             /\ sol_vault' = vault_after
             /\ lamports' = [lamports EXCEPT ![seller] = seller_after]
             /\ total_minted' = minted
             /\ sol_collected' = collected
             /\ current_price' = price
             /\ traded' = TRUE
             /\ Finished("sell", seller, token_amount, sol_amount)

\* a withdrawal that also takes the amount off sol_collected
withdraw_sol_from_collected(who, amount) ==
    LET vault_after == UncheckedSub(sol_vault, amount)
        signer_after == Unchecked(Add(lamports[who], amount))
    IN  IF ~IsAuthority(who)
        THEN Failed("withdraw", who, amount, "Unauthorized")
        ELSE IF vault_after = Abort \/ signer_after = Abort
        THEN Failed("withdraw", who, amount, "Panic")
        ELSE IF \/ Add(vault_after, signer_after) # Add(sol_vault, lamports[who])
                \/ Lt(signer_after, lamports[who])
        THEN Failed("withdraw", who, amount, "UnbalancedInstruction")
        ELSE /\ sol_vault' = vault_after
             /\ lamports' = [lamports EXCEPT ![who] = signer_after]
             /\ sol_collected' = IF Le(amount, sol_collected)
                                 THEN Sub(sol_collected, amount) ELSE Zero
             /\ UNCHANGED <<current_price, total_minted, token_balance, traded>>
             /\ Finished("withdraw", who, amount, amount)

\* withdraw_sol(ctx, amount) signed by who
withdraw_sol(who, amount) ==
    LET vault_after == UncheckedSub(sol_vault, amount)
        signer_after == Unchecked(Add(lamports[who], amount))
    IN  IF ~IsAuthority(who)
        THEN Failed("withdraw", who, amount, "Unauthorized")
        ELSE IF vault_after = Abort \/ signer_after = Abort
        THEN Failed("withdraw", who, amount, "Panic")
        \* a build that wraps returns Ok with a wrapped balance; the runtime
        \* fails an instruction that does not conserve the lamports of its
        \* accounts or that debits an account the program does not own
        ELSE IF \/ Add(vault_after, signer_after) # Add(sol_vault, lamports[who])
                \/ Lt(signer_after, lamports[who])
        THEN Failed("withdraw", who, amount, "UnbalancedInstruction")
        ELSE /\ sol_vault' = vault_after
             /\ lamports' = [lamports EXCEPT ![who] = signer_after]
             /\ UNCHANGED <<current_price, total_minted, sol_collected,
                            token_balance, traded>>
             /\ Finished("withdraw", who, amount, amount)

\* initialize_token_launcher with the arguments of a scenario, built either
\* with or without overflow checks.  Token accounts exist and are empty.
Init ==
    /\ overflow_checks \in BOOLEAN
    /\ scenario \in 1..Len(Scenarios)
    /\ token_decimals = Scenarios[scenario].decimals
    /\ current_price = Scenarios[scenario].initial_price
    /\ max_supply = Scenarios[scenario].max_supply
    /\ total_minted = Zero
    /\ sol_collected = Zero
    /\ sol_vault = VaultInitialLamports
    /\ lamports = [s \in Signers |-> SignerLamports]
    /\ token_balance = [s \in Signers |-> Zero]
    /\ traded = FALSE
    /\ last = [op |-> "initialize", who |-> Authority, amount |-> Zero,
               err |-> "Ok", out |-> Zero]
    /\ steps = 0

\* one more instruction is processed; initialization set the build and the
\* immutable fields of the launcher
Step ==
    /\ steps < MaxSteps
    /\ steps' = steps + 1
    /\ UNCHANGED <<overflow_checks, scenario, token_decimals, max_supply>>

Buy ==
    /\ Step
    /\ \E who \in Signers, amount \in Scenarios[scenario].buy :
           buy_tokens(who, amount)

Sell ==
    /\ Step
    /\ \E who \in Signers, amount \in Scenarios[scenario].sell :
           sell_tokens(who, amount)

Withdraw ==
    /\ Step
    /\ \E who \in Signers, amount \in Scenarios[scenario].withdraw :
           withdraw_sol(who, amount)

Next == Buy \/ Sell \/ Withdraw

Spec == Init /\ [][Next]_vars

-----------------------------------------------------------------------------
(* update_price alone, as a function of total_minted for a fixed           *)
(* max_supply.                                                              *)

\* the values of max_supply the function is applied under
PriceSupplies == {One, N(3), N(100), N(1000), N(1000000), E(1, 9), E(1, 18)}

\* total_minted takes the values floor(max_supply * k / PriceParts)
PriceParts == 20

Issued(k) == Div(Mul(max_supply, N(k)), N(PriceParts))

\* a launcher with nothing minted whose price is the curve's price of 0
PriceInit ==
    /\ overflow_checks \in BOOLEAN
    /\ scenario = 1
    /\ token_decimals = Scenarios[scenario].decimals
    /\ max_supply \in PriceSupplies
    /\ current_price = N(1000000)
    /\ total_minted = Zero
    /\ sol_collected = Zero
    /\ sol_vault = VaultInitialLamports
    /\ lamports = [s \in Signers |-> SignerLamports]
    /\ token_balance = [s \in Signers |-> Zero]
    /\ traded = FALSE
    /\ last = [op |-> "initialize", who |-> Authority, amount |-> Zero,
               err |-> "Ok", out |-> Zero]
    /\ steps = 0

\* total_minted is set to issued and update_price is called; a panic leaves
\* the launcher as it was
Reprice(issued) ==
    LET price == update_price(issued)
    IN  /\ IF price = Abort
           THEN /\ last' = [op |-> "update_price", who |-> Authority,
                            amount |-> issued, err |-> "Panic", out |-> Zero]
                /\ UNCHANGED <<total_minted, current_price>>
           ELSE /\ last' = [op |-> "update_price", who |-> Authority,
                            amount |-> issued, err |-> "Ok", out |-> price]
                /\ total_minted' = issued
                /\ current_price' = price
        /\ UNCHANGED <<overflow_checks, scenario, token_decimals, max_supply,
                       sol_collected, sol_vault, lamports, token_balance,
                       traded, steps>>

PriceNext == \E k \in 0..PriceParts : Reprice(Issued(k))

PriceSpec == PriceInit /\ [][PriceNext]_vars

-----------------------------------------------------------------------------
(* Properties.                                                              *)

\* the errors of the program's ErrorCode enum
TypedErrors ==
    {"MathOverflow", "MaxSupplyExceeded", "InsufficientSolBalance",
     "Unauthorized"}

\* the launcher state, the vault and every signer's balances are untouched
NothingMoves ==
    UNCHANGED <<current_price, total_minted, sol_collected, sol_vault,
                lamports, token_balance>>

\* the bonding curve of the specification on exact naturals:
\* floor(1_000_000 * (100 + floor(issued * 100 / supply)) / 100)
CurvePrice(issued, supply) ==
    Div(Mul(N(1000000), Add(N(100), Div(Mul(issued, N(100)), supply))),
        N(100))

\* C1: in every reachable state, after successful and failed buys, sells
\* and withdrawals alike, 0 <= total_minted <= max_supply.
C1_SupplyWithinCap == Le(Zero, total_minted) /\ Le(total_minted, max_supply)

\* C1 witness: a buy has minted the supply up to the cap exactly.
C1_CapReached ==
    /\ last.op = "buy" /\ last.err = "Ok" /\ last.out # Zero
    /\ total_minted = max_supply

\* C2: once a buy or a sell has succeeded, current_price is the curve value
\* of the state's own total_minted and max_supply.
C2_PriceOnCurve ==
    traded => /\ max_supply # Zero
              /\ current_price = CurvePrice(total_minted, max_supply)

\* C3: a successful buy of X lamports followed at once by a successful sell,
\* by the same signer, of exactly the tokens that buy minted pays out
\* strictly less than X.
C3_RoundTripLoses ==
    [][ ( /\ last.op = "buy" /\ last.err = "Ok"
          /\ last'.op = "sell" /\ last'.err = "Ok"
          /\ last'.who = last.who
          /\ last'.amount = last.out )
        => Lt(last'.out, last.amount) ]_vars

\* C3, only for the buys that minted something: the same round trip.
C3_RoundTripLosesOnTokens ==
    [][ ( /\ last.op = "buy" /\ last.err = "Ok" /\ last.out # Zero
          /\ last'.op = "sell" /\ last'.err = "Ok"
          /\ last'.who = last.who
          /\ last'.amount = last.out )
        => Lt(last'.out, last.amount) ]_vars

\* C4: in every reachable state sol_collected is at most the lamports the
\* vault holds.
C4_ReserveBacked == Le(sol_collected, sol_vault)

\* C5 as stated: a buy whose computed token amount would take total_minted
\* past max_supply fails with MaxSupplyExceeded and nothing moves.
C5_CapExceededIsMaxSupplyExceeded ==
    [][ ( /\ last'.op = "buy"
          /\ IsValue(BuyTokenAmount(last'.amount))
          /\ Lt(max_supply, Add(total_minted, BuyTokenAmount(last'.amount))) )
        => (last'.err = "MaxSupplyExceeded" /\ NothingMoves) ]_vars

\* C5 amended: such a buy fails and nothing moves; the error is
\* MaxSupplyExceeded when total_minted + token amount fits in a u64 and
\* MathOverflow when it does not.
C5_CapExceededFails ==
    [][ ( /\ last'.op = "buy"
          /\ IsValue(BuyTokenAmount(last'.amount))
          /\ Lt(max_supply, Add(total_minted, BuyTokenAmount(last'.amount))) )
        => /\ NothingMoves
           /\ last'.err =
                IF IsU64(Add(total_minted, BuyTokenAmount(last'.amount)))
                THEN "MaxSupplyExceeded" ELSE "MathOverflow" ]_vars

\* C5 witness: a buy was refused with MaxSupplyExceeded after an earlier buy
\* had minted part of the supply.
C5_BuyRefusedAtCap ==
    /\ last.op = "buy" /\ last.err = "MaxSupplyExceeded"
    /\ total_minted # Zero

\* C6: a withdrawal signed by anyone but the authority fails with
\* Unauthorized, whatever the amount, and nothing moves.
C6_StrangerCannotWithdraw ==
    [][ (last'.op = "withdraw" /\ last'.who # Authority)
        => (last'.err = "Unauthorized" /\ NothingMoves) ]_vars

\* C6 witness: a stranger was refused an amount the vault could have paid.
C6_StrangerRefused ==
    /\ last.op = "withdraw" /\ last.who # Authority
    /\ last.err = "Unauthorized"
    /\ last.amount # Zero /\ Le(last.amount, sol_vault)

\* C7: a sell whose computed sol amount exceeds the lamports of the vault
\* fails with InsufficientSolBalance and nothing is burned or moved.
C7_SellBeyondVaultFails ==
    [][ ( /\ last'.op = "sell"
          /\ IsValue(SellSolAmount(last'.amount))
          /\ Lt(sol_vault, SellSolAmount(last'.amount)) )
        => (last'.err = "InsufficientSolBalance" /\ NothingMoves) ]_vars

\* C7 witness: a holder's sell of tokens it owns was refused for lack of
\* lamports in the vault.
C7_SellRefused ==
    /\ last.op = "sell" /\ last.err = "InsufficientSolBalance"
    /\ last.amount # Zero /\ Le(last.amount, token_balance[last.who])

\* C8: a withdrawal by the authority of more than the vault holds fails with
\* the typed insufficient-reserve error and nothing moves.
C8_OverdraftIsTypedError ==
    [][ ( /\ last'.op = "withdraw" /\ last'.who = Authority
          /\ Lt(sol_vault, last'.amount) )
        => ( /\ last'.err \in {"InsufficientReserve", "InsufficientSolBalance"}
             /\ NothingMoves ) ]_vars

\* C9: a buy whose floor(sol_amount / current_price) is zero is rejected with
\* a typed error and nothing moves.
C9_ZeroQuantityBuyRejected ==
    [][ ( /\ last'.op = "buy"
          /\ current_price # Zero
          /\ Div(last'.amount, current_price) = Zero )
        => (last'.err \in TypedErrors /\ NothingMoves) ]_vars

\* C10: a sell of 0 tokens fails with a typed error and has no effect; in
\* particular current_price stays what it was.
C10_ZeroSellRejected ==
    [][ (last'.op = "sell" /\ last'.amount = Zero)
        => (last'.err \in TypedErrors /\ NothingMoves) ]_vars

\* C11: initialization never creates a launcher with max_supply = 0, so in
\* every reachable state max_supply > 0 and no instruction ends in
\* update_price's division by zero.
C11_SupplyPositive == max_supply # Zero

\* C12: in every reachable state, the one right after initialization
\* included, current_price > 0.
C12_PricePositive == Lt(Zero, current_price)

\* C13: a sell of token_amount > 0 that is at most total_minted and at most
\* the seller's holding, and whose computed sol amount is at most the
\* lamports of the vault, succeeds.
C13_SellIsTotal ==
    [][ ( /\ last'.op = "sell"
          /\ last'.amount # Zero
          /\ Le(last'.amount, total_minted)
          /\ Le(last'.amount, token_balance[last'.who])
          /\ IsValue(SellSolAmount(last'.amount))
          /\ Le(SellSolAmount(last'.amount), sol_vault) )
        => last'.err = "Ok" ]_vars

\* C14: a successful buy of sol_amount mints
\* floor(sol_amount / p) * 10^token_decimals units, p being current_price
\* before the buy; the vault and sol_collected grow by sol_amount, the
\* buyer's tokens and total_minted by the minted units, and current_price
\* becomes the curve value of the new total_minted.
C14_BuyEffects ==
    [][ (last'.op = "buy" /\ last'.err = "Ok")
        => LET units == Mul(Div(last'.amount, current_price),
                            Pow(N(10), token_decimals))
           IN  /\ last'.out = units
               /\ sol_vault' = Add(sol_vault, last'.amount)
               /\ token_balance'[last'.who] =
                      Add(token_balance[last'.who], units)
               /\ total_minted' = Add(total_minted, units)
               /\ sol_collected' = Add(sol_collected, last'.amount)
               /\ current_price' = CurvePrice(total_minted', max_supply) ]_vars

\* C15: a successful sell of token_amount pays
\* floor(floor(token_amount / 10^token_decimals) * p * 90 / 100) lamports, p
\* being current_price before the sell; the seller's tokens and
\* total_minted shrink by token_amount, the vault and sol_collected by the
\* payout, and current_price becomes the curve value of the new
\* total_minted.
C15_SellEffects ==
    [][ (last'.op = "sell" /\ last'.err = "Ok")
        => LET payout ==
                   Div(Mul(Mul(Div(last'.amount, Pow(N(10), token_decimals)),
                               current_price),
                           N(90)),
                       N(100))
           IN  /\ last'.out = payout
               /\ token_balance'[last'.who] =
                      Sub(token_balance[last'.who], last'.amount)
               /\ total_minted' = Sub(total_minted, last'.amount)
               /\ sol_vault' = Sub(sol_vault, payout)
               /\ sol_collected' = Sub(sol_collected, payout)
               /\ current_price' = CurvePrice(total_minted', max_supply) ]_vars

\* C16: a successful withdrawal of amount by the authority takes exactly
\* amount off the vault, adds it to the authority's lamports and leaves
\* total_minted, current_price, sol_collected, max_supply, token_decimals
\* and every token balance unchanged.
C16_WithdrawFrame ==
    [][ (last'.op = "withdraw" /\ last'.err = "Ok")
        => /\ last'.who = Authority
           /\ Add(sol_vault', last'.amount) = sol_vault
           /\ lamports'[Authority] = Add(lamports[Authority], last'.amount)
           /\ UNCHANGED <<total_minted, current_price, sol_collected,
                          max_supply, token_decimals, token_balance>> ]_vars

\* C16 witness: the authority has withdrawn lamports that buys had paid in
\* while sol_collected still records them.
C16_Withdrawn ==
    /\ last.op = "withdraw" /\ last.err = "Ok" /\ last.amount # Zero
    /\ sol_collected # Zero
    /\ Lt(sol_vault, sol_collected)

\* update_price on total_minted = supply has an intermediate value above
\* the u64 range
PriceOverflows(supply) == ~IsU64(Mul(supply, N(100)))

\* a buy of sol lamports by buyer reaches, computed on exact naturals, an
\* intermediate value above the u64 range
BuyOverflows(buyer, sol) ==
    /\ current_price # Zero
    /\ LET unit == Pow(N(10), token_decimals)
           units == Mul(Div(sol, current_price), unit)
           total == Add(total_minted, units)
       IN  \/ ~IsU64(unit)
           \/ ~IsU64(units)
           \/ ~IsU64(total)
           \/ /\ Le(total, max_supply)
              /\ Le(sol, lamports[buyer])
              /\ ~IsU64(Add(sol_collected, sol)) \/ PriceOverflows(total)

\* a sell of tokens units by seller reaches, computed on exact naturals, an
\* intermediate value above the u64 range
SellOverflows(seller, tokens) ==
    LET unit == Pow(N(10), token_decimals)
        gross == Mul(Div(tokens, unit), current_price)
        payout == Div(Mul(gross, N(90)), N(100))
    IN  \/ ~IsU64(unit)
        \/ ~IsU64(gross)
        \/ ~IsU64(Mul(gross, N(90)))
        \/ /\ Le(payout, sol_vault)
           /\ Le(payout, sol_collected)
           /\ Le(tokens, token_balance[seller])
           /\ Le(tokens, total_minted)
           /\ \/ ~IsU64(Add(lamports[seller], payout))
              \/ PriceOverflows(Sub(total_minted, tokens))

\* C17: a buy or a sell with an intermediate value above the u64 range
\* (total_minted * 100 in update_price and 10^token_decimals in the
\* conversions included) fails with MathOverflow and nothing moves.
C17_OverflowIsMathOverflow ==
    [][ ( \/ last'.op = "buy" /\ BuyOverflows(last'.who, last'.amount)
          \/ last'.op = "sell" /\ SellOverflows(last'.who, last'.amount) )
        => (last'.err = "MathOverflow" /\ NothingMoves) ]_vars

\* C18: for a fixed max_supply > 0, update_price is non-decreasing in
\* total_minted up to max_supply, gives 1_000_000 at total_minted = 0 and
\* 2_000_000 at total_minted = max_supply.
C18_PriceMonotone ==
    [][ last'.op = "update_price"
        => /\ last'.err = "Ok"
           /\ last'.amount = Zero => last'.out = N(1000000)
           /\ last'.amount = max_supply => last'.out = N(2000000)
           /\ (last.op = "update_price" /\ Le(last.amount, last'.amount))
                  => Le(last.out, last'.out) ]_vars

RECURSIVE TokensHeld(_)
\* the tokens held by the signers of the set holders together
TokensHeld(holders) ==
    IF holders = {} THEN Zero
    ELSE LET h == CHOOSE x \in holders : TRUE
         IN  Add(token_balance[h], TokensHeld(holders \ {h}))

\* C19: in every reachable state, those after an instruction that failed
\* after its mint or burn included, the token balances of all holders add
\* up to total_minted.
C19_SupplyIsTotalMinted == TokensHeld(Signers) = total_minted

\* C19 witness: a sell of tokens the seller holds, which the vault could
\* pay, failed at the update of sol_collected, after the burn and the payout.
C19_SellFailedAfterBurn ==
    /\ last.op = "sell" /\ last.err = "MathOverflow"
    /\ last.amount # Zero
    /\ Le(last.amount, token_balance[last.who])
    /\ IsValue(SellSolAmount(last.amount))
    /\ Le(SellSolAmount(last.amount), sol_vault)

\* C20: the vault starts with its initial lamports and sol_collected = 0;
\* every buy and every sell changes the vault's lamports and sol_collected
\* by the same amount, and a withdrawal changes the vault alone, by the
\* amount withdrawn when it succeeds and by nothing when it fails.  Hence
\* in every reachable state the vault holds its initial lamports plus
\* sol_collected minus the lamports successfully withdrawn.
C20_VaultTracksCollected ==
    [][ /\ last.op = "initialize"
           => sol_vault = VaultInitialLamports /\ sol_collected = Zero
        /\ last'.op \in {"buy", "sell"}
           => Add(sol_vault', sol_collected) = Add(sol_vault, sol_collected')
        /\ last'.op = "withdraw"
           => /\ sol_collected' = sol_collected
              /\ Add(sol_vault', IF last'.err = "Ok" THEN last'.amount ELSE Zero)
                    = sol_vault ]_vars

\* C20 witness: a sell has paid lamports out of a vault from which the
\* authority had withdrawn before.
C20_SoldAfterWithdrawal ==
    /\ last.op = "sell" /\ last.err = "Ok" /\ last.out # Zero
    /\ sol_vault # Add(VaultInitialLamports, sol_collected)

====
